---- MODULE Spec2Model ----
(***************************************************************************)
(* Model of etl_base_contratos.py: ClienteAPI (credential loading, rate    *)
(* limited GET), BuscadorContrato (paginated fetch, flattening of nested   *)
(* fields, Brazilian number formatting) and the entry point.               *)
(*                                                                         *)
(* Python values are tagged records: [none], [nan], [str], [int], [num]    *)
(* (a float with two decimals, held as an integer number of cents),        *)
(* [dict] (a function from keys to values) and [list].  Text on which the  *)
(* code works character by character (the credential line, a formatted     *)
(* number) is a sequence of one-character strings; a character TLA+ has no *)
(* escape for is written as its Python escape (the vertical tab is \x0b).   *)
(***************************************************************************)
EXTENDS Integers, Sequences, FiniteSets, TLC

VARIABLES
    arquivo,        \* api_key.txt: [existe |-> FALSE] or [existe |-> TRUE, conteudo |-> chars]
    pc,             \* position of the caller (entry point or test driver)
    token_api,      \* ClienteAPI.token_api
    erro,           \* exception that ended the run, or "nenhum"
    pc_get,         \* position inside ClienteAPI.get: "ocioso", "dormiu", "em_voo"
    orcamento,      \* calls to get the driver still makes (client specifications)
    restrito,       \* argument restrito of the current call to get
    hora,           \* local hora_atual of _aplicar_limite_taxa; -1 outside the function
    espera,         \* argument of the last time.sleep, as the fraction num/den seconds
    n_esperas,      \* number of time.sleep calls so far
    pedidos,        \* page numbers of the HTTP requests issued so far
    em_voo,         \* number of HTTP requests issued and not yet answered
    respostas,      \* what get returned for each request so far
    pagina_inicial, \* BuscadorContrato.pagina_inicial
    pagina,         \* local pagina of buscar_contratos
    todos_os_dados, \* local todos_os_dados of buscar_contratos
    dataframe,      \* BuscadorContrato.dataframe
    df_antes,       \* the table as it was before the last call to processar_dataframe
    chamadas,       \* number of calls to processar_dataframe so far
    avisos,         \* number of logging.warning records emitted by _parse_dict
    fases,          \* phases the entry point has completed, in order
    csv             \* contratos_FULL.csv: [escrito |-> FALSE] or the file written

varsCliente == <<arquivo, token_api, pc_get, orcamento, restrito, hora, espera,
                 n_esperas, pedidos, em_voo, respostas>>
varsBusca == <<pagina_inicial, pagina, todos_os_dados>>
varsTabela == <<dataframe, df_antes, chamadas, avisos>>
vars == <<arquivo, pc, token_api, erro, pc_get, orcamento, restrito, hora, espera,
          n_esperas, pedidos, em_voo, respostas, pagina_inicial, pagina,
          todos_os_dados, dataframe, df_antes, chamadas, avisos, fases, csv>>

-----------------------------------------------------------------------------
(* Bounds of the model. *)

MaxLinha == 4
MaxChamadasGet == 2
MaxPaginas == 2
MaxPorPagina == 2
MaxPaginaInicial == 2
MaxLinhas == 2
MaxProcessar == 2
MaxMantissa == 12
MaxExpoente == 7

-----------------------------------------------------------------------------
(* Python values. *)

None == [none |-> TRUE]
NaN == [nan |-> TRUE]
Str(s) == [str |-> s]
PyInt(i) == [int |-> i]
Num(centavos) == [num |-> centavos]
Dict(f) == [dict |-> f]
List(s) == [list |-> s]

IsNone(v) == "none" \in DOMAIN v
IsNaN(v) == "nan" \in DOMAIN v
IsStr(v) == "str" \in DOMAIN v
IsInt(v) == "int" \in DOMAIN v
IsNum(v) == "num" \in DOMAIN v
IsDict(v) == "dict" \in DOMAIN v
IsList(v) == "list" \in DOMAIN v

RECURSIVE Join(_)
Join(chars) == IF chars = <<>> THEN "" ELSE Head(chars) \o Join(Tail(chars))

RECURSIVE SeqsUpTo(_, _)
SeqsUpTo(S, n) ==
    IF n = 0 THEN {<<>>}
    ELSE LET menores == SeqsUpTo(S, n - 1)
         IN  menores \cup {Append(s, x) : s \in {t \in menores : Len(t) = n - 1}, x \in S}

-----------------------------------------------------------------------------
(* ClienteAPI._carregar_chave_api and ClienteAPI.__init__ *)

\* The characters str.strip() removes: those for which str.isspace() holds.
Whitespace ==
    {" ", "\t", "\n", "\r", "\f", "\\x0b", "\\x1c", "\\x1d", "\\x1e", "\\x1f", "\\x85", "\\xa0",
     "\\u1680", "\\u2000", "\\u2001", "\\u2002", "\\u2003", "\\u2004", "\\u2005", "\\u2006",
     "\\u2007", "\\u2008", "\\u2009", "\\u200a", "\\u2028", "\\u2029", "\\u202f", "\\u205f",
     "\\u3000"}

\* file.readline() of a file opened in text mode (universal newlines): the
\* line ends at the first "\n", "\r" or "\r\n", which is read as "\n".
RECURSIVE readline(_)
readline(conteudo) ==
    IF conteudo = <<>> THEN <<>>
    ELSE IF Head(conteudo) \in {"\n", "\r"} THEN <<"\n">>
    ELSE <<Head(conteudo)>> \o readline(Tail(conteudo))

RECURSIVE lstrip(_)
lstrip(s) == IF s # <<>> /\ Head(s) \in Whitespace THEN lstrip(Tail(s)) ELSE s

RECURSIVE rstrip(_)
rstrip(s) ==
    IF s # <<>> /\ s[Len(s)] \in Whitespace THEN rstrip(SubSeq(s, 1, Len(s) - 1)) ELSE s

strip(s) == rstrip(lstrip(s))

RECURSIVE UpTo(_, _)
UpTo(s, sep) ==
    IF s = <<>> \/ Head(s) = sep THEN <<>> ELSE <<Head(s)>> \o UpTo(Tail(s), sep)

RECURSIVE split(_, _)
split(s, sep) ==
    LET primeiro == UpTo(s, sep)
    IN  IF Len(primeiro) = Len(s) THEN <<s>>
        ELSE <<primeiro>> \o split(SubSeq(s, Len(primeiro) + 2, Len(s)), sep)

\* The token read from the file, or None when open() or the indexing raises.
carregar_chave_api(arq) ==
    IF ~arq.existe THEN None
    ELSE LET partes == split(strip(readline(arq.conteudo)), "=")
         IN  IF Len(partes) < 2 THEN None ELSE Str(Join(partes[2]))

\* Python truth value: None, '', [], {}, 0 and 0.0 are false; nan is true.
Truthy(v) ==
    /\ ~IsNone(v)
    /\ ~(IsStr(v) /\ v.str = "")
    /\ ~(IsList(v) /\ Len(v.list) = 0)
    /\ ~(IsDict(v) /\ DOMAIN v.dict = {})
    /\ ~(IsInt(v) /\ v.int = 0)
    /\ ~(IsNum(v) /\ v.num = 0)

\* Mutant: the constructor accepts whatever the loader returned.
ConstrucaoFalha_sem_teste(token) == FALSE

ConstrucaoFalha(token) == ~Truthy(token)

\* ClienteAPI(url_base)
Construir ==
    /\ pc = "inicio"
    /\ token_api' = carregar_chave_api(arquivo)
    /\ IF ConstrucaoFalha(token_api')
          THEN pc' = "fatal" /\ erro' = "ValueError"
          ELSE pc' = "pronto" /\ erro' = erro
    /\ UNCHANGED <<arquivo, pc_get, orcamento, restrito, hora, espera, n_esperas,
                   pedidos, em_voo, respostas>>
    /\ UNCHANGED <<varsBusca, varsTabela, fases, csv>>

-----------------------------------------------------------------------------
(* ClienteAPI._aplicar_limite_taxa and ClienteAPI.get *)

Horas == 0 .. 23

\* Mutant: the hour of day decides before the restrito flag is looked at.
max_requisicoes_por_minuto_hora_primeiro(restr, h) ==
    IF 0 <= h /\ h < 6 THEN 700
    ELSE IF restr THEN 180
    ELSE 400

max_requisicoes_por_minuto(restr, h) ==
    IF restr THEN 180
    ELSE IF 0 <= h /\ h < 6 THEN 700
    ELSE 400

\* The argument of time.sleep: 60 / max_requisicoes_por_minuto seconds.
aplicar_limite_taxa(restr, h) == [num |-> 60, den |-> max_requisicoes_por_minuto(restr, h)]

\* get, line 22: the delay, with the hour read from the wall clock.
GetEsperar(restr) ==
    /\ pc_get = "ocioso"
    /\ \E h \in Horas :
          /\ hora' = h
          /\ espera' = aplicar_limite_taxa(restr, h)
    /\ restrito' = restr
    /\ n_esperas' = n_esperas + 1
    /\ pc_get' = "dormiu"
    /\ UNCHANGED <<arquivo, token_api, pedidos, em_voo, respostas>>

\* get, lines 22-24: _aplicar_limite_taxa returns and requests.get is issued
\* for page p.
GetEnviar(p) ==
    /\ pc_get = "dormiu"
    /\ hora' = -1
    /\ pedidos' = Append(pedidos, p)
    /\ em_voo' = em_voo + 1
    /\ pc_get' = "em_voo"
    /\ UNCHANGED <<arquivo, token_api, restrito, espera, n_esperas, respostas>>

\* What get returns for an HTTP outcome: the parsed JSON body, whatever it
\* holds, or None when requests.get or raise_for_status raised a
\* RequestException.
Retorno(resp) == IF resp.status = "ok" THEN resp.corpo ELSE None

\* get, lines 24-30: the response (or the failure) arrives and get returns.
GetReceber(resp) ==
    /\ pc_get = "em_voo"
    /\ em_voo' = em_voo - 1
    /\ respostas' = Append(respostas, Retorno(resp))
    /\ pc_get' = "ocioso"
    /\ UNCHANGED <<arquivo, token_api, restrito, hora, espera, n_esperas, pedidos>>

-----------------------------------------------------------------------------
(* pandas.DataFrame as the code uses it: ordered columns, rows as functions *)
(* from column name to value.                                              *)

\* Order in which the API lists the fields of a contract.
OrdemChaves == <<"id", "compra", "unidadeGestora", "fornecedor", "unidadeGestoraCompras",
                 "valorInicialCompra", "valorFinalCompra">>

InSeq(x, s) == \E i \in 1 .. Len(s) : s[i] = x

\* Keys of a raw record, in the order the API lists them.
Chaves(reg) == SelectSeq(OrdemChaves, LAMBDA k : k \in DOMAIN reg)

RECURSIVE UniaoOrdenada(_, _)
UniaoOrdenada(cols, novas) ==
    IF novas = <<>> THEN cols
    ELSE UniaoOrdenada(IF InSeq(Head(novas), cols) THEN cols ELSE Append(cols, Head(novas)),
                       Tail(novas))

RECURSIVE ColunasDe(_)
ColunasDe(dados) ==
    IF dados = <<>> THEN <<>>
    ELSE UniaoOrdenada(Chaves(Head(dados)), ColunasDe(Tail(dados)))

\* pd.DataFrame(list of dicts): the columns are the keys in order of first
\* appearance; a record without a key holds NaN in that column.
DataFrame(dados) ==
    LET cols == ColunasDe(dados)
    IN  [colunas |-> cols,
         linhas |-> [i \in 1 .. Len(dados) |->
                        [c \in {cols[j] : j \in 1 .. Len(cols)} |->
                            IF c \in DOMAIN dados[i] THEN dados[i][c] ELSE NaN]]]

\* df.empty
Empty(df) == Len(df.linhas) = 0 \/ Len(df.colunas) = 0

\* df[col] = valores
SetCol(df, col, valores) ==
    [colunas |-> IF InSeq(col, df.colunas) THEN df.colunas ELSE Append(df.colunas, col),
     linhas |-> [i \in 1 .. Len(df.linhas) |-> (col :> valores[i]) @@ df.linhas[i]]]

\* df.drop(columns=cols, inplace=True)
Drop(df, cols) ==
    LET ficam == SelectSeq(df.colunas, LAMBDA c : c \notin cols)
    IN  [colunas |-> ficam,
         linhas |-> [i \in 1 .. Len(df.linhas) |->
                        [c \in {ficam[j] : j \in 1 .. Len(ficam)} |-> df.linhas[i][c]]]]

\* Series.apply: res[i] is [val |-> v, aviso |-> n] or [exc |-> name].  The
\* rows are visited in order and the first exception ends the call.
PrimeiraFalha(res) ==
    IF \E i \in 1 .. Len(res) : "exc" \in DOMAIN res[i]
       THEN CHOOSE i \in 1 .. Len(res) :
                /\ "exc" \in DOMAIN res[i]
                /\ \A j \in 1 .. i - 1 : "exc" \notin DOMAIN res[j]
       ELSE 0

RECURSIVE SomaAvisos(_, _)
SomaAvisos(res, n) == IF n = 0 THEN 0 ELSE res[n].aviso + SomaAvisos(res, n - 1)

-----------------------------------------------------------------------------
(* BuscadorContrato._parse_dict *)

\* ast.literal_eval on the strings the model feeds it: the value it returns
\* or the exception it raises.
literal_eval(s) ==
    CASE s = "{'numero': '123', 'objeto': 'X'}" ->
            [val |-> Dict([numero |-> Str("123"), objeto |-> Str("X")])]
      [] s = "{'codigo': '193099', 'orgaoVinculado': {'sigla': 'IBAMA'}}" ->
            [val |-> Dict([codigo |-> Str("193099"),
                           orgaoVinculado |-> Dict([sigla |-> Str("IBAMA")])])]
      [] s = "{'orgaoVinculado': None}" -> [val |-> Dict([orgaoVinculado |-> None])]
      [] s = "{}" -> [val |-> Dict(<<>>)]
      [] s = "not-a-dict" -> [exc |-> "ValueError"]
      [] s = "{'numero': " -> [exc |-> "SyntaxError"]
      [] s = "" -> [exc |-> "SyntaxError"]
      [] s = "123" -> [val |-> PyInt(123)]
      [] s = "['a']" -> [val |-> List(<<Str("a")>>)]
      [] s = "None" -> [val |-> None]
      [] s = "{['a']: 1}" -> [exc |-> "TypeError"]

parse_dict(valor) ==
    IF ~IsStr(valor) THEN [val |-> valor, aviso |-> 0]
    ELSE LET r == literal_eval(valor.str)
         IN  IF "val" \in DOMAIN r THEN [val |-> r.val, aviso |-> 0]
             ELSE IF r.exc \in {"ValueError", "SyntaxError"}
                     THEN [val |-> Dict(<<>>), aviso |-> 1]
                     ELSE [exc |-> r.exc]

-----------------------------------------------------------------------------
(* BuscadorContrato._expandir_colunas *)

\* Progress of processar_dataframe: the table, the exception raised so far
\* ("nenhum" while none) and the warnings logged.
Estado(df, exc, n) == [df |-> df, erro |-> exc, avisos |-> n]

\* dict.get(k, default)
DictGet(d, k, default) == IF k \in DOMAIN d.dict THEN d.dict[k] ELSE default

\* The lambdas of lines 122 and 124: x.get(k) or x.get(k0, {}).get(k1);
\* .get on a value that is no dict raises AttributeError.
extrair(x, chaves) ==
    IF ~IsDict(x) THEN [exc |-> "AttributeError"]
    ELSE IF Len(chaves) = 1 THEN [val |-> DictGet(x, chaves[1], None), aviso |-> 0]
    ELSE LET interno == DictGet(x, chaves[1], Dict(<<>>))
         IN  IF ~IsDict(interno) THEN [exc |-> "AttributeError"]
             ELSE [val |-> DictGet(interno, chaves[2], None), aviso |-> 0]

\* df[destino] = res, res being the outcomes of Series.apply on each row,
\* inside processar_dataframe.
Aplicar(st, destino, res) ==
    LET falha == PrimeiraFalha(res)
    IN  IF falha = 0
           THEN Estado(SetCol(st.df, destino, [i \in 1 .. Len(res) |-> res[i].val]),
                       "nenhum", st.avisos + SomaAvisos(res, Len(res)))
           ELSE Estado(st.df, res[falha].exc, st.avisos + SomaAvisos(res, falha - 1))

\* Lines 120-124: one new column per mapping, until one raises.
RECURSIVE ExpandirMapeamentos(_, _, _)
ExpandirMapeamentos(st, coluna_dict, mapeamentos) ==
    IF mapeamentos = <<>> \/ st.erro # "nenhum" THEN st
    ELSE LET m == Head(mapeamentos)
             chaves == Tail(m)
         IN  ExpandirMapeamentos(
                 Aplicar(st, m[1], [i \in 1 .. Len(st.df.linhas) |->
                                        extrair(st.df.linhas[i][coluna_dict], chaves)]),
                 coluna_dict, Tail(mapeamentos))

expandir_colunas(st, nome_coluna, mapeamentos) ==
    IF st.erro # "nenhum" \/ ~InSeq(nome_coluna, st.df.colunas) THEN st
    ELSE LET coluna_dict == nome_coluna \o "_dict"
             st1 == Aplicar(st, coluna_dict, [i \in 1 .. Len(st.df.linhas) |->
                                                 parse_dict(st.df.linhas[i][nome_coluna])])
             st2 == ExpandirMapeamentos(st1, coluna_dict, mapeamentos)
         IN  IF st2.erro # "nenhum" THEN st2
             ELSE Estado(Drop(st2.df, {coluna_dict, nome_coluna}), "nenhum", st2.avisos)

-----------------------------------------------------------------------------
(* BuscadorContrato._formatar_valores_brasileiros *)

Digito == <<"0", "1", "2", "3", "4", "5", "6", "7", "8", "9">>

RECURSIVE Digitos(_)
Digitos(n) == IF n < 10 THEN <<Digito[n + 1]>> ELSE Append(Digitos(n \div 10), Digito[(n % 10) + 1])

\* The ',' option of the format specification: a comma every three digits.
RECURSIVE Agrupar(_)
Agrupar(ds) ==
    IF Len(ds) <= 3 THEN ds
    ELSE Agrupar(SubSeq(ds, 1, Len(ds) - 3)) \o <<",">> \o SubSeq(ds, Len(ds) - 2, Len(ds))

\* f'{x:,.2f}' for x = centavos / 100
Format2f(centavos) ==
    LET abs == IF centavos < 0 THEN -centavos ELSE centavos
    IN  (IF centavos < 0 THEN <<"-">> ELSE <<>>)
        \o Agrupar(Digitos(abs \div 100))
        \o <<".", Digito[((abs % 100) \div 10) + 1], Digito[(abs % 10) + 1]>>

\* str.replace for one-character strings
replace(s, de, para) == [i \in 1 .. Len(s) |-> IF s[i] = de THEN para ELSE s[i]]

\* Mutant: the last replace is missing, so the thousands separator stays 'X'.
formatar_sem_ultimo_replace(x) ==
    IF IsNum(x) THEN [val |-> Str(Join(replace(replace(Format2f(x.num), ",", "X"), ".", ","))),
                      aviso |-> 0]
    ELSE IF IsInt(x) THEN [val |-> Str(Join(replace(replace(Format2f(100 * x.int), ",", "X"),
                                                    ".", ","))), aviso |-> 0]
    ELSE IF IsNaN(x) THEN [val |-> Str("nan"), aviso |-> 0]
    ELSE IF IsStr(x) THEN [exc |-> "ValueError"]
    ELSE [exc |-> "TypeError"]

\* The lambda of line 145.  A str has no format code 'f' (ValueError); None,
\* dict and list take no format specification at all (TypeError).
formatar(x) ==
    LET br(chars) == Str(Join(replace(replace(replace(chars, ",", "X"), ".", ","), "X", ".")))
    IN  IF IsNum(x) THEN [val |-> br(Format2f(x.num)), aviso |-> 0]
        ELSE IF IsInt(x) THEN [val |-> br(Format2f(100 * x.int)), aviso |-> 0]
        ELSE IF IsNaN(x) THEN [val |-> Str("nan"), aviso |-> 0]
        ELSE IF IsStr(x) THEN [exc |-> "ValueError"]
        ELSE [exc |-> "TypeError"]

RECURSIVE formatar_valores_brasileiros(_, _)
formatar_valores_brasileiros(st, colunas) ==
    IF colunas = <<>> \/ st.erro # "nenhum" THEN st
    ELSE LET coluna == Head(colunas)
         IN  formatar_valores_brasileiros(
                 IF InSeq(coluna, st.df.colunas)
                    THEN Aplicar(st, coluna, [i \in 1 .. Len(st.df.linhas) |->
                                                 formatar(st.df.linhas[i][coluna])])
                    ELSE st,
                 Tail(colunas))

-----------------------------------------------------------------------------
(* BuscadorContrato.processar_dataframe *)

MapeamentosCompra ==
    << <<"codNumCompra", "numero">>,
       <<"objeto_Compra", "objeto">>,
       <<"numeroProcesso_Compra", "numeroProcesso">>,
       <<"contatoResponsavel_Compra", "contatoResponsavel">> >>

MapeamentosUnidadeGestora ==
    << <<"codUnidadeGestora", "codigo">>,
       <<"nome_UnidadeGestora", "nome">>,
       <<"descricaoPoder_UnidadeGestora", "descricaoPoder">>,
       <<"orgaoVinculado_codigoSIAFI", "orgaoVinculado", "codigoSIAFI">>,
       <<"orgaoVinculado_cnpj", "orgaoVinculado", "cnpj">>,
       <<"orgaoVinculado_sigla", "orgaoVinculado", "sigla">>,
       <<"orgaoVinculado_nome", "orgaoVinculado", "nome">>,
       <<"orgaoMaximo_codigo", "orgaoMaximo", "codigo">>,
       <<"orgaoMaximo_sigla", "orgaoMaximo", "sigla">>,
       <<"orgaoMaximo_nome", "orgaoMaximo", "nome">> >>

MapeamentosFornecedor ==
    << <<"id_fornecedor", "id">>,
       <<"cpfFormatado_fornecedor", "cpfFormatado">>,
       <<"cnpjFormatado_fornecedor", "cnpjFormatado">>,
       <<"numeroInscricaoSocial_fornecedor", "numeroInscricaoSocial">>,
       <<"nome_fornecedor", "nome">>,
       <<"razaoSocialReceita_fornecedor", "razaoSocialReceita">>,
       <<"nomeFantasiaReceita_fornecedor", "nomeFantasiaReceita">>,
       <<"tipo_fornecedor", "tipo">> >>

MapeamentosUnidadeGestoraCompras ==
    << <<"codigo_UnidadeGestoraCompras", "codigo">>,
       <<"nome_UnidadeGestoraCompras", "nome">> >>

ColunasValor == <<"valorInicialCompra", "valorFinalCompra">>

\* The table, the exception (if any) and the warnings after one call.
processar_dataframe(df) ==
    LET s0 == Estado(df, "nenhum", 0)
        s1 == expandir_colunas(s0, "compra", MapeamentosCompra)
        s2 == expandir_colunas(s1, "unidadeGestora", MapeamentosUnidadeGestora)
        s3 == expandir_colunas(s2, "fornecedor", MapeamentosFornecedor)
        s4 == expandir_colunas(s3, "unidadeGestoraCompras", MapeamentosUnidadeGestoraCompras)
    IN  formatar_valores_brasileiros(s4, ColunasValor)

-----------------------------------------------------------------------------
(* Inputs: credential files, raw records, pages and HTTP outcomes. *)

Alfabeto == {"a", "=", " ", "\n", "\r", "\f"}

\* Every api_key.txt of at most MaxLinha characters, and the missing file.
TodosArquivos ==
    {[existe |-> FALSE]}
        \cup {[existe |-> TRUE, conteudo |-> c] : c \in SeqsUpTo(Alfabeto, MaxLinha)}

ArquivosPrincipais ==
    {[existe |-> FALSE],
     [existe |-> TRUE, conteudo |-> <<"a">>],
     [existe |-> TRUE, conteudo |-> <<"a", "=", "a", "\n">>]}

CompraBoa == Str("{'numero': '123', 'objeto': 'X'}")

UnidadeGestoraBoa ==
    Dict([codigo |-> Str("193099"), orgaoVinculado |-> Dict([sigla |-> Str("IBAMA")])])

ValoresCompra ==
    {CompraBoa, Dict([numero |-> Str("123")]), Dict(<<>>), Str("not-a-dict"),
     Str("{'numero': "), Str("123"), Str("{['a']: 1}"), None}

ValoresUnidadeGestora ==
    {UnidadeGestoraBoa, Str("{'codigo': '193099', 'orgaoVinculado': {'sigla': 'IBAMA'}}"),
     Dict([orgaoVinculado |-> None]), Str("{'orgaoVinculado': None}"), Str("not-a-dict"),
     Str("{}")}

ValoresFornecedor ==
    {Dict([id |-> Str("7"), nome |-> Str("ACME")]), Str("['a']"), Str("None")}

ValoresUnidadeGestoraCompras == {Dict([codigo |-> Str("1")]), Str("")}

RegistroCompleto ==
    [id |-> PyInt(1), compra |-> CompraBoa, unidadeGestora |-> UnidadeGestoraBoa,
     fornecedor |-> Dict([id |-> Str("7"), nome |-> Str("ACME")]),
     unidadeGestoraCompras |-> Dict([codigo |-> Str("1")]),
     valorInicialCompra |-> Num(123456789), valorFinalCompra |-> Num(50)]

\* Raw records as the API may return them: one nested field (or the two
\* amounts) beside the id, and a record with every field.  The values inside
\* the nested mappings are text or null.
Amostras ==
    {RegistroCompleto, [id |-> PyInt(2)]}
        \cup {[id |-> PyInt(3), compra |-> c] : c \in ValoresCompra}
        \cup {[id |-> PyInt(4), unidadeGestora |-> u] : u \in ValoresUnidadeGestora}
        \cup {[id |-> PyInt(5), fornecedor |-> f] : f \in ValoresFornecedor}
        \cup {[id |-> PyInt(6), unidadeGestoraCompras |-> g] : g \in ValoresUnidadeGestoraCompras}
        \cup {[id |-> PyInt(7), valorInicialCompra |-> Num(v), valorFinalCompra |-> PyInt(1000)] :
                v \in {0, 99999}}

RECURSIVE Pot10(_)
Pot10(e) == IF e = 0 THEN 1 ELSE 10 * Pot10(e - 1)

\* Amounts in cents: around every power of ten, and the two of the examples.
Centavos ==
    {123456789, 50}
        \cup {m * Pot10(e) : m \in 0 .. MaxMantissa, e \in 0 .. MaxExpoente}
        \cup {m * Pot10(e) - 1 : m \in 1 .. MaxMantissa, e \in 0 .. MaxExpoente}

\* Records of the pages the server of the entry point's runs returns.
RegistrosServidor ==
    {[id |-> PyInt(1), compra |-> CompraBoa, valorInicialCompra |-> Num(50)],
     [id |-> PyInt(3), compra |-> Str("123")]}

PaginasPossiveis == SeqsUpTo(RegistrosServidor, MaxPorPagina)

\* HTTP outcomes: a RequestException, or a 2xx response whose body is a JSON
\* list of records, the empty object or the number 0.
Respostas ==
    {[status |-> "erro"], [status |-> "ok", corpo |-> Dict(<<>>)],
     [status |-> "ok", corpo |-> PyInt(0)]}
        \cup {[status |-> "ok", corpo |-> List(p)] : p \in PaginasPossiveis}

-----------------------------------------------------------------------------
(* Initial states *)

InitCliente ==
    /\ erro = "nenhum"
    /\ pc_get = "ocioso"
    /\ restrito = FALSE
    /\ hora = -1
    /\ espera = [num |-> 0, den |-> 1]
    /\ n_esperas = 0
    /\ pedidos = <<>>
    /\ em_voo = 0
    /\ respostas = <<>>

InitBusca ==
    /\ pagina = 0
    /\ todos_os_dados = <<>>
    /\ df_antes = DataFrame(<<>>)
    /\ chamadas = 0
    /\ avisos = 0
    /\ fases = <<>>
    /\ csv = [escrito |-> FALSE]

\* The entry point, before ClienteAPI(...) is constructed.
Init ==
    /\ InitCliente
    /\ InitBusca
    /\ pc = "inicio"
    /\ token_api = None
    /\ arquivo \in ArquivosPrincipais
    /\ orcamento = 0
    /\ pagina_inicial \in 1 .. MaxPaginaInicial
    /\ dataframe = DataFrame(<<>>)

\* A driver that constructs a client from any credential file and calls get once.
InitCred ==
    /\ InitCliente
    /\ InitBusca
    /\ pc = "inicio"
    /\ token_api = None
    /\ arquivo \in TodosArquivos
    /\ orcamento = 1
    /\ pagina_inicial = 1
    /\ dataframe = DataFrame(<<>>)

\* A driver that constructs a client and calls get MaxChamadasGet times.
InitGet ==
    /\ InitCliente
    /\ InitBusca
    /\ pc = "inicio"
    /\ token_api = None
    /\ arquivo \in ArquivosPrincipais
    /\ orcamento = MaxChamadasGet
    /\ pagina_inicial = 1
    /\ dataframe = DataFrame(<<>>)

\* A BuscadorContrato whose table holds up to MaxLinhas raw records.
InitProcess ==
    /\ InitCliente
    /\ InitBusca
    /\ pc = "tabela"
    /\ arquivo = [existe |-> TRUE, conteudo |-> <<"a", "=", "a", "\n">>]
    /\ token_api = carregar_chave_api(arquivo)
    /\ orcamento = 0
    /\ pagina_inicial = 1
    /\ \E dados \in SeqsUpTo(Amostras, MaxLinhas) : dataframe = DataFrame(dados)

\* A BuscadorContrato whose table holds one record with two amounts.
InitFormat ==
    /\ InitCliente
    /\ InitBusca
    /\ pc = "tabela"
    /\ arquivo = [existe |-> TRUE, conteudo |-> <<"a", "=", "a", "\n">>]
    /\ token_api = carregar_chave_api(arquivo)
    /\ orcamento = 0
    /\ pagina_inicial = 1
    /\ \E v \in Centavos, w \in {50, 123456789} :
          dataframe = DataFrame(<<[id |-> PyInt(1), compra |-> CompraBoa,
                                   valorInicialCompra |-> Num(v),
                                   valorFinalCompra |-> Num(w)]>>)

-----------------------------------------------------------------------------
(* A driver of ClienteAPI alone: construction, then calls to get. *)

ChamarEsperar ==
    /\ pc = "pronto"
    /\ orcamento > 0
    /\ \E restr \in BOOLEAN : GetEsperar(restr)
    /\ orcamento' = orcamento - 1
    /\ UNCHANGED <<pc, erro, varsBusca, varsTabela, fases, csv>>

ChamarEnviar ==
    /\ pc = "pronto"
    /\ \E p \in 1 .. MaxPaginaInicial : GetEnviar(p)
    /\ UNCHANGED <<pc, erro, orcamento, varsBusca, varsTabela, fases, csv>>

ChamarReceber ==
    /\ pc = "pronto"
    /\ \E resp \in Respostas : GetReceber(resp)
    /\ UNCHANGED <<pc, erro, orcamento, varsBusca, varsTabela, fases, csv>>

NextCliente == Construir \/ ChamarEsperar \/ ChamarEnviar \/ ChamarReceber

SpecCred == InitCred /\ [][NextCliente]_vars

SpecGet == InitGet /\ [][NextCliente]_vars

-----------------------------------------------------------------------------
(* BuscadorContrato.buscar_contratos *)

\* Mutant: a page that came back empty or failed is requested again, until
\* four requests have been made.
passo_busca_repete(todos, pag, dados) ==
    IF ~Truthy(dados) THEN [fim |-> Len(pedidos) >= 4, todos |-> todos, pagina |-> pag]
    ELSE [fim |-> FALSE, todos |-> todos \o dados.list, pagina |-> pag + 1]

\* Mutant: list.append instead of list.extend keeps one record of each page.
passo_busca_um_por_pagina(todos, pag, dados) ==
    IF ~Truthy(dados) THEN [fim |-> TRUE, todos |-> todos, pagina |-> pag]
    ELSE [fim |-> FALSE, todos |-> Append(todos, Head(dados.list)), pagina |-> pag + 1]

\* Lines 67-70: the body of the loop once get has returned dados, which is
\* None, a false JSON value or a list with records.
passo_busca(todos, pag, dados) ==
    IF ~Truthy(dados) THEN [fim |-> TRUE, todos |-> todos, pagina |-> pag]
    ELSE [fim |-> FALSE, todos |-> todos \o dados.list, pagina |-> pag + 1]

\* BuscadorContrato(cliente, codigo_orgao, pagina_inicial) and lines 62-63.
IniciarBusca ==
    /\ pc = "pronto"
    /\ pc' = "buscando"
    /\ pagina' = pagina_inicial
    /\ todos_os_dados' = <<>>
    /\ fases' = Append(fases, "fetching")
    /\ UNCHANGED <<erro, orcamento, pagina_inicial, varsCliente, varsTabela, csv>>

\* Line 66, inside get: the delay.  buscar_contratos never passes restrito.
BuscarEsperar ==
    /\ pc = "buscando"
    /\ GetEsperar(FALSE)
    /\ UNCHANGED <<pc, erro, orcamento, varsBusca, varsTabela, fases, csv>>

\* Line 66, inside get: the request for the current page.
BuscarEnviar ==
    /\ pc = "buscando"
    /\ GetEnviar(pagina)
    /\ UNCHANGED <<pc, erro, orcamento, varsBusca, varsTabela, fases, csv>>

\* Lines 66-73: get returns and the loop goes on or ends.  The server has at
\* most MaxPaginas pages with records.
BuscarReceber ==
    /\ pc = "buscando"
    /\ \E resp \in Respostas :
          /\ Truthy(Retorno(resp)) => Len(respostas) < MaxPaginas
          /\ GetReceber(resp)
          /\ LET passo == passo_busca(todos_os_dados, pagina, Retorno(resp))
             IN  /\ todos_os_dados' = passo.todos
                 /\ pagina' = passo.pagina
                 /\ IF passo.fim
                       THEN pc' = "buscado" /\ dataframe' = DataFrame(passo.todos)
                       ELSE pc' = pc /\ dataframe' = dataframe
    /\ UNCHANGED <<erro, orcamento, pagina_inicial, df_antes, chamadas, avisos, fases, csv>>

-----------------------------------------------------------------------------
(* The entry point after buscar_contratos, lines 157-169 *)

\* Mutant: the table is processed and saved even when it is empty.
DeveProcessar_sempre(df) == TRUE

\* Line 157, negated.
DeveProcessar(df) == ~Empty(df)

\* pandas writes a float in its shortest form: 0.5, 1234567.89, 1.0
FloatRepr(centavos) ==
    LET abs == IF centavos < 0 THEN -centavos ELSE centavos
        frac == abs % 100
    IN  (IF centavos < 0 THEN <<"-">> ELSE <<>>) \o Digitos(abs \div 100) \o <<".">>
        \o (IF frac % 10 = 0 THEN <<Digito[(frac \div 10) + 1]>>
            ELSE <<Digito[(frac \div 10) + 1], Digito[(frac % 10) + 1]>>)

\* One field of the file: missing values are written as the empty string.
CsvCampo(v) ==
    CASE IsStr(v) -> v.str
      [] IsInt(v) -> ToString(v.int)
      [] IsNum(v) -> Join(FloatRepr(v.num))
      [] IsNone(v) \/ IsNaN(v) -> ""

\* df.to_csv('contratos_FULL.csv', index=False): a header and one line per row.
to_csv(df) ==
    [escrito |-> TRUE,
     cabecalho |-> df.colunas,
     linhas |-> [i \in 1 .. Len(df.linhas) |->
                    [j \in 1 .. Len(df.colunas) |-> CsvCampo(df.linhas[i][df.colunas[j]])]]]

\* Lines 157-158: nothing was fetched; the run ends with a warning.
SemContratos ==
    /\ pc = "buscado"
    /\ ~DeveProcessar(dataframe)
    /\ pc' = "fim"
    /\ UNCHANGED <<erro, orcamento, varsCliente, varsBusca, varsTabela, fases, csv>>

\* Lines 160-161: processar_dataframe on what was fetched.
ProcessarPrincipal ==
    /\ pc = "buscado"
    /\ DeveProcessar(dataframe)
    /\ LET r == processar_dataframe(dataframe)
       IN  /\ dataframe' = r.df
           /\ avisos' = avisos + r.avisos
           /\ erro' = r.erro
           /\ IF r.erro = "nenhum"
                 THEN pc' = "processado" /\ fases' = Append(fases, "processed")
                 ELSE pc' = "abortado" /\ fases' = fases
    /\ df_antes' = dataframe
    /\ chamadas' = chamadas + 1
    /\ UNCHANGED <<orcamento, varsCliente, varsBusca, csv>>

\* Lines 164-169: the file is written and the run ends.
Persistir ==
    /\ pc = "processado"
    /\ csv' = to_csv(dataframe)
    /\ fases' = Append(fases, "persisted")
    /\ pc' = "fim"
    /\ UNCHANGED <<erro, orcamento, varsCliente, varsBusca, varsTabela>>

Next ==
    \/ Construir
    \/ IniciarBusca
    \/ BuscarEsperar
    \/ BuscarEnviar
    \/ BuscarReceber
    \/ SemContratos
    \/ ProcessarPrincipal
    \/ Persistir

Spec == Init /\ [][Next]_vars

-----------------------------------------------------------------------------
(* A driver of processar_dataframe alone: up to MaxProcessar calls in a row. *)

Processar ==
    /\ pc = "tabela"
    /\ erro = "nenhum"
    /\ chamadas < MaxProcessar
    /\ LET r == processar_dataframe(dataframe)
       IN  /\ dataframe' = r.df
           /\ avisos' = avisos + r.avisos
           /\ erro' = r.erro
    /\ df_antes' = dataframe
    /\ chamadas' = chamadas + 1
    /\ UNCHANGED <<pc, orcamento, varsCliente, varsBusca, fases, csv>>

NextProcess == Processar

SpecProcess == InitProcess /\ [][NextProcess]_vars

SpecFormat == InitFormat /\ [][NextProcess]_vars

-----------------------------------------------------------------------------
(* Properties of buscar_contratos *)

RECURSIVE Concatenar(_, _)
Concatenar(rs, n) == IF n = 0 THEN <<>> ELSE Concatenar(rs, n - 1) \o rs[n].list

BuscaTerminou == pc \in {"buscado", "processado", "abortado", "fim"}

\* C1: once buscar_contratos has returned, the last response is the first
\* empty or failed one, the pages requested are exactly pagina_inicial,
\* pagina_inicial + 1, ... up to that page, and the accumulated records are
\* the concatenation, in page order, of the records of the pages before it;
\* the table built from them holds one row per record with the record's values.
C1_BuscaAcumula ==
    BuscaTerminou =>
        LET n == Len(respostas)
        IN  /\ n >= 1
            /\ ~Truthy(respostas[n])
            /\ \A i \in 1 .. n - 1 : Truthy(respostas[i])
            /\ pedidos = [i \in 1 .. n |-> pagina_inicial + i - 1]
            /\ todos_os_dados = Concatenar(respostas, n - 1)
            /\ pc = "buscado" =>
                  /\ Len(dataframe.linhas) = Len(todos_os_dados)
                  /\ \A i \in 1 .. Len(todos_os_dados) :
                        \A c \in DOMAIN dataframe.linhas[i] :
                            dataframe.linhas[i][c] =
                                IF c \in DOMAIN todos_os_dados[i]
                                   THEN todos_os_dados[i][c] ELSE NaN
                  /\ \A i \in 1 .. Len(todos_os_dados) :
                        DOMAIN todos_os_dados[i] \subseteq DOMAIN dataframe.linhas[i]

\* Two pages with records (two, then one) and an empty third page, from page 2:
\* three requests and three rows.
C1_Witness ==
    /\ pc = "buscado"
    /\ pagina_inicial = 2
    /\ pedidos = <<2, 3, 4>>
    /\ Len(respostas) = 3
    /\ Len(respostas[1].list) = 2
    /\ Len(respostas[2].list) = 1
    /\ respostas[3] = List(<<>>)
    /\ Len(dataframe.linhas) = 3

\* C2: requests are sequential and monotonic: at most one request is
\* outstanding, every request but the last has been answered, each page
\* number is the previous one plus one (so none is requested twice), and a
\* page is requested only after the page before it returned records.
C2_Sequencial ==
    /\ em_voo \in {0, 1}
    /\ Len(pedidos) = Len(respostas) + em_voo
    /\ \A i \in 1 .. Len(pedidos) - 1 :
          /\ pedidos[i + 1] = pedidos[i] + 1
          /\ Truthy(respostas[i])
    /\ \A i, j \in 1 .. Len(pedidos) : i # j => pedidos[i] # pedidos[j]

\* The third request is outstanding after two pages that returned records.
C2_Witness ==
    /\ pc = "buscando"
    /\ em_voo = 1
    /\ Len(pedidos) = 3
    /\ Len(respostas) = 2

-----------------------------------------------------------------------------
(* Properties of the entry point *)

FasesCompletas == <<"fetching", "processed", "persisted">>

\* C9 as stated: every run that reaches the end of the entry point has passed
\* through fetching, processed and persisted, and has written the file.
C9_Original ==
    pc = "fim" => fases = FasesCompletas /\ csv.escrito

\* C9 amended: the phases occur only in the order fetching, processed,
\* persisted; the file is written only at the very end, after fetch and one
\* successful process; the pipeline has one branch: a run that fetched no
\* record ends after fetching with nothing processed or written, and a run
\* that fetched records ends only after all three phases.
C9_FasesEmOrdem ==
    /\ \E n \in 0 .. 3 : fases = SubSeq(FasesCompletas, 1, n)
    /\ csv.escrito =>
          /\ pc = "fim"
          /\ fases = FasesCompletas
          /\ Len(respostas) >= 1 /\ ~Truthy(respostas[Len(respostas)])
          /\ chamadas = 1 /\ erro = "nenhum"
          /\ csv = to_csv(dataframe)
    /\ pc = "fim" =>
          IF todos_os_dados = <<>>
             THEN fases = <<"fetching">> /\ ~csv.escrito /\ chamadas = 0
             ELSE fases = FasesCompletas /\ csv.escrito

\* A run that fetched two records and wrote them.
C9_Witness ==
    /\ pc = "fim"
    /\ fases = FasesCompletas
    /\ csv.escrito
    /\ Len(csv.linhas) = 2

-----------------------------------------------------------------------------
(* Properties of ClienteAPI *)

Linha1(arq) == strip(readline(arq.conteudo))

\* The part of a line after its first '='.
DepoisDoPrimeiroIgual(s) == SubSeq(s, Len(UpTo(s, "=")) + 2, Len(s))

\* Line 1 reads key=value with a key and a value.
ArquivoValido(arq) ==
    /\ arq.existe
    /\ InSeq("=", Linha1(arq))
    /\ UpTo(Linha1(arq), "=") # <<>>
    /\ DepoisDoPrimeiroIgual(Linha1(arq)) # <<>>

\* Missing or unreadable, no '=' on line 1, or nothing after it.
ArquivoMalformado(arq) ==
    \/ ~arq.existe
    \/ ~InSeq("=", Linha1(arq))
    \/ DepoisDoPrimeiroIgual(Linha1(arq)) = <<>>

\* C4 as stated: the token of a client constructed from a valid credential
\* file is the whole of line 1 after the first '=', further '=' characters
\* included.
C4_Original ==
    (pc = "pronto" /\ ArquivoValido(arquivo)) =>
        token_api = Str(Join(DepoisDoPrimeiroIgual(Linha1(arquivo))))

\* C5: with a missing, unreadable or malformed credential file the
\* constructor raises ValueError; a constructed client always holds a
\* non-empty token; no delay and no HTTP request happens before construction
\* or after its failure.
C5_ConstrucaoFatal ==
    /\ (pc # "inicio" /\ ArquivoMalformado(arquivo)) => (pc = "fatal" /\ erro = "ValueError")
    /\ pc = "pronto" => (IsStr(token_api) /\ token_api.str # "")
    /\ pc \in {"inicio", "fatal"} => (pedidos = <<>> /\ n_esperas = 0 /\ em_voo = 0)

\* The constructor failed on a file whose line 1 has '=' with nothing after it.
C5_Witness ==
    /\ pc = "fatal"
    /\ arquivo.existe
    /\ InSeq("=", Linha1(arquivo))
    /\ DepoisDoPrimeiroIgual(Linha1(arquivo)) = <<>>

\* C8: every call to get sleeps exactly once before its request is issued,
\* for 60/limit seconds, limit being 180 for a restricted call whatever the
\* hour, else 700 for an hour in [0,6) and 400 for every other hour.
C8_UmaEsperaPorPedido ==
    LET limite == IF restrito THEN 180 ELSE IF hora \in 0 .. 5 THEN 700 ELSE 400
    IN  /\ pc_get = "ocioso" => n_esperas = Len(pedidos)
        /\ pc_get = "dormiu" =>
              /\ n_esperas = Len(pedidos) + 1
              /\ hora \in 0 .. 23
              /\ espera.num * limite = 60 * espera.den
        /\ pc_get = "em_voo" =>
              /\ n_esperas = Len(pedidos)
              /\ restrito => espera.num * 180 = 60 * espera.den
              /\ ~restrito => (\/ espera.num * 700 = 60 * espera.den
                               \/ espera.num * 400 = 60 * espera.den)

\* The second call, restricted, at 3 o'clock, has slept 60/180 s and its
\* request is not out yet.
C8_Witness ==
    /\ pc_get = "dormiu"
    /\ restrito
    /\ hora = 3
    /\ Len(pedidos) = 1
    /\ n_esperas = 2
    /\ espera = [num |-> 60, den |-> 180]

-----------------------------------------------------------------------------
(* Properties of processar_dataframe *)

ColunasAninhadas == {"compra", "unidadeGestora", "fornecedor", "unidadeGestoraCompras"}

MapeamentosDe(coluna) ==
    CASE coluna = "compra" -> MapeamentosCompra
      [] coluna = "unidadeGestora" -> MapeamentosUnidadeGestora
      [] coluna = "fornecedor" -> MapeamentosFornecedor
      [] coluna = "unidadeGestoraCompras" -> MapeamentosUnidadeGestoraCompras

\* The nested columns of a table, and the cells of all its nested columns.
AninhadasDe(df) == {c \in ColunasAninhadas : InSeq(c, df.colunas)}

\* The value is a mapping, native or string-encoded.
EhMapeamento(v) ==
    \/ IsDict(v)
    \/ IsStr(v) /\ "val" \in DOMAIN literal_eval(v.str) /\ IsDict(literal_eval(v.str).val)

\* The mapping a cell holds.
MapeamentoDe(v) == IF IsDict(v) THEN v ELSE literal_eval(v.str).val

\* The value is a string that does not encode a mapping.
NaoCodificaMapeamento(v) == IsStr(v) /\ ~EhMapeamento(v)

\* The value at a one- or two-level path of a mapping, null when the path is absent.
ValorNoCaminho(d, chaves) ==
    IF chaves[1] \notin DOMAIN d.dict THEN None
    ELSE IF Len(chaves) = 1 THEN d.dict[chaves[1]]
    ELSE IF IsDict(d.dict[chaves[1]]) /\ chaves[2] \in DOMAIN d.dict[chaves[1]].dict
            THEN d.dict[chaves[1]].dict[chaves[2]]
    ELSE None

\* Every step of every declared path of the mapping is a mapping or absent.
CaminhosSaos(d, coluna) ==
    \A k \in 1 .. Len(MapeamentosDe(coluna)) :
        LET m == MapeamentosDe(coluna)[k]
        IN  (Len(m) = 3 /\ m[2] \in DOMAIN d.dict) => IsDict(d.dict[m[2]])

\* C3 as stated: a second call on the table a first call produced does not
\* raise and leaves the table as the first call left it.
C3_Original ==
    chamadas = 2 => (erro = "nenhum" /\ dataframe = df_antes)

\* C6 as stated: in a table whose nested cells hold either mappings with
\* sound paths or strings that encode no mapping, and at least one of the
\* latter, process does not raise, logs a warning, and every column mapped
\* from such a string is null in that record.
C6_Original ==
    (/\ chamadas = 1
     /\ \A c \in AninhadasDe(df_antes) : \A i \in 1 .. Len(df_antes.linhas) :
           LET v == df_antes.linhas[i][c]
           IN  NaoCodificaMapeamento(v) \/ (EhMapeamento(v) /\ CaminhosSaos(MapeamentoDe(v), c))
     /\ \E c \in AninhadasDe(df_antes) : \E i \in 1 .. Len(df_antes.linhas) :
           NaoCodificaMapeamento(df_antes.linhas[i][c]))
    => /\ erro = "nenhum"
       /\ avisos >= 1
       /\ \A c \in AninhadasDe(df_antes) : \A i \in 1 .. Len(df_antes.linhas) :
             NaoCodificaMapeamento(df_antes.linhas[i][c]) =>
                 \A k \in 1 .. Len(MapeamentosDe(c)) :
                     dataframe.linhas[i][MapeamentosDe(c)[k][1]] = None

\* C7 as stated: in a table whose nested cells all hold mappings, process
\* sets every declared output column to the value at its path, or to null
\* when the path is absent, and drops each nested column and its parsed form.
C7_Original ==
    (/\ chamadas = 1
     /\ AninhadasDe(df_antes) # {}
     /\ \A c \in AninhadasDe(df_antes) : \A i \in 1 .. Len(df_antes.linhas) :
           EhMapeamento(df_antes.linhas[i][c]))
    => /\ erro = "nenhum"
       /\ \A c \in AninhadasDe(df_antes) :
             /\ ~InSeq(c, dataframe.colunas)
             /\ ~InSeq(c \o "_dict", dataframe.colunas)
             /\ \A i \in 1 .. Len(df_antes.linhas) : \A k \in 1 .. Len(MapeamentosDe(c)) :
                   LET m == MapeamentosDe(c)[k]
                   IN  dataframe.linhas[i][m[1]] =
                           ValorNoCaminho(MapeamentoDe(df_antes.linhas[i][c]), Tail(m))

\* The integer part of an amount, its digits grouped in threes with '.'.
RECURSIVE GruposBR(_)
GruposBR(n) ==
    IF n < 1000 THEN Digitos(n)
    ELSE GruposBR(n \div 1000)
         \o <<".", Digito[((n % 1000) \div 100) + 1], Digito[((n % 100) \div 10) + 1],
              Digito[(n % 10) + 1]>>

\* Brazilian-locale text of a non-negative amount of cents.
TextoBR(centavos) ==
    Join(GruposBR(centavos \div 100)
         \o <<",", Digito[((centavos % 100) \div 10) + 1], Digito[(centavos % 10) + 1]>>)

\* C10: after process, each amount of valorInicialCompra and valorFinalCompra
\* is replaced by text: the integer part grouped in threes with '.', then ','
\* and two decimal digits; 1234567.89 gives "1.234.567,89" and 0.5 gives "0,50".
C10_FormatoBrasileiro ==
    chamadas = 1 =>
        /\ erro = "nenhum"
        /\ \A i \in 1 .. Len(df_antes.linhas) :
              \A c \in {"valorInicialCompra", "valorFinalCompra"} :
                  LET antes == df_antes.linhas[i][c]
                      depois == dataframe.linhas[i][c]
                  IN  /\ IsNum(antes) /\ antes.num >= 0
                      /\ IsStr(depois)
                      /\ depois.str = TextoBR(antes.num)
                      /\ antes.num = 123456789 => depois.str = "1.234.567,89"
                      /\ antes.num = 50 => depois.str = "0,50"

\* 1234567.89 and 0.5 have been formatted.
C10_Witness ==
    /\ chamadas = 1
    /\ df_antes.linhas[1]["valorInicialCompra"] = Num(123456789)
    /\ df_antes.linhas[1]["valorFinalCompra"] = Num(50)
    /\ dataframe.linhas[1]["valorInicialCompra"] = Str("1.234.567,89")
    /\ dataframe.linhas[1]["valorFinalCompra"] = Str("0,50")

====
